---- MODULE Spec2Model ----
(***************************************************************************)
(* server.js.  The order lifecycle: POST /purchase, POST /cancel-order and *)
(* POST /admin/cancel-order over the orders.json ledger and the mail       *)
(* transporter, with the listings GET /orders and GET /admin/orders.  The  *)
(* catalog: the category routes over categories.json and the indexed       *)
(* product routes over products.json.  Every request is a slot of reqs     *)
(* (orders) or calls (catalog); the asynchronous fs.readFile /             *)
(* fs.writeFile / sendMail completions are separate steps, so requests     *)
(* interleave exactly where the event loop lets them.  Spec and SpecSeq    *)
(* are the order routes, SpecList the listings, SpecCategories and         *)
(* SpecProducts the catalog routes.                                        *)
(***************************************************************************)
EXTENDS Integers, Sequences, FiniteSets

\* ------------------------------------------------------------------ bounds
MaxReq == 3          \* number of requests issued in one behaviour
MaxClock == 2        \* last value of Date.now() (the clock starts at 1)
MaxInFlight == 2     \* requests with storage or mail I/O outstanding at one time

MaxCall == 3         \* number of catalog requests issued in one behaviour

Req == 1..MaxReq
Call == 1..MaxCall

\* ------------------------------------------------------------ input values
Undefined == "undefined"                 \* a missing body field
Emails == {"a@x", "b@x"}
EmailInputs == Emails \cup {Undefined, ""}
PurchaseEmailInputs == {Undefined, "", "b@x"}
Totals == {"3900"}
Carts == {<<"Phone">>}

Digit(d) ==
  CASE d = 0 -> "0" [] d = 1 -> "1" [] d = 2 -> "2" [] d = 3 -> "3"
    [] d = 4 -> "4" [] d = 5 -> "5" [] d = 6 -> "6" [] d = 7 -> "7"
    [] d = 8 -> "8" [] d = 9 -> "9"

RECURSIVE ToString(_)
\* Number.prototype.toString(): the decimal digits of a non-negative integer
ToString(n) == IF n < 10 THEN Digit(n) ELSE ToString(n \div 10) \o Digit(n % 10)

\* no id, the id of the order of the initial ledger, the id of an order created
\* at the first clock value
OrderIdInputs == {Undefined, "0", ToString(1)}

\* how a readFile can end: the text, an error, or text JSON.parse rejects
ReadOutcomes == {"ok", "err", "bad"}

\* a presence check that lets the empty string through
Truthy_EmptyOk(v) == v # Undefined

\* JavaScript truthiness of a body field that is a string or missing
Truthy(v) == v # Undefined /\ v # ""

\* ------------------------------------------------------------------- state
VARIABLES
  file,      \* orders.json: absent, or the JSON text of an array of orders
  now,       \* Date.now()
  creds,     \* GOOGLE_CLIENT_ID and GOOGLE_REFRESH_TOKEN are both set
  reqs,      \* the requests: parameters, closure variables, progress, responses
  categoriesFile,   \* categories.json
  productsFile,     \* products.json
  calls      \* the catalog requests: parameters, closure variables, responses

vars == <<file, now, creds, reqs, categoriesFile, productsFile, calls>>

\* what the order routes never touch
catalog == <<categoriesFile, productsFile, calls>>

Absent == [kind |-> "absent", orders |-> <<>>]

\* JSON.stringify(orders, null, 2) as written to orders.json
Stringify(orders) == [kind |-> "json", orders |-> orders]

\* JSON.parse(data) of what Stringify wrote
Parse(data) == data.orders

\* the order a previous run of the server left in the ledger
Order0 ==
  [id |-> "0", email |-> "a@x", items |-> <<>>, total |-> "3900",
   date |-> 0, status |-> "Active"]

NoOrder ==
  [id |-> "", email |-> "", items |-> <<>>, total |-> "", date |-> 0, status |-> ""]

NoMail == [to |-> "", subject |-> "", id |-> ""]

\* late, read and base are history: late is set when a cancel arrives, read is
\* how the readFile of the request ended and base the orders a mutation loaded
IdleReq ==
  [kind |-> "none", email |-> Undefined, orderId |-> Undefined,
   io |-> "none", mail |-> "none", orders |-> <<>>, newOrder |-> NoOrder,
   resp |-> <<>>, msg |-> NoMail, late |-> FALSE, read |-> "none", base |-> <<>>]

\* a catalog request: the route, its parameters (param, names, fields), the
\* collection its callback holds (data) and its progress
IdleCall ==
  [kind |-> "none", param |-> <<>>, names |-> <<>>, fields |-> {},
   io |-> "none", data |-> <<>>, resp |-> <<>>]

\* no catalog file yet and no catalog request
CatalogIdle ==
  /\ categoriesFile = Absent
  /\ productsFile = Absent
  /\ calls = [c \in Call |-> IdleCall]

Init ==
  /\ file \in {Absent, Stringify(<<Order0>>)}
  /\ now = 1
  /\ creds \in BOOLEAN
  /\ reqs = [r \in Req |-> IdleReq]
  /\ CatalogIdle

\* res.status(code).json({success, message})
Response(code, success, message) ==
  [code |-> code, success |-> success, message |-> message]

\* some cancel request for orderId has been answered with success (history:
\* recorded in the late field of a cancel request when it arrives)
AnsweredCancel(orderId) ==
  \E q \in Req :
    /\ reqs[q].kind \in {"cancel", "admin"}
    /\ reqs[q].orderId = orderId
    /\ \E k \in 1..Len(reqs[q].resp) : reqs[q].resp[k].success

\* storage or mail I/O of request r is outstanding
InFlight(r) == reqs[r].io \in {"read", "write"} \/ reqs[r].mail = "pending"

\* a request arrives in the next free slot
Fresh(r) ==
  /\ reqs[r].kind = "none"
  /\ \A q \in Req : q < r => reqs[q].kind # "none"
  /\ Cardinality({q \in Req : InFlight(q)}) < MaxInFlight

\* Date.now() advances
Tick ==
  /\ now < MaxClock
  /\ now' = now + 1
  /\ UNCHANGED <<file, creds, reqs, catalog>>

\* ---------------------------------------------------------- POST /purchase
MissingCreds == "Missing Google OAuth credentials in Environment Variables"
SendFailed == "send failed"
PurchaseError(m) == "Error sending purchase confirmation: " \o m

\* a catch block that swallows the mail error, as the cancel flows do
PurchaseFailed_Swallowed(m) == Response(200, TRUE, PurchaseError(m))

\* the response of the catch block
PurchaseFailed(m) == Response(500, FALSE, PurchaseError(m))

\* the synchronous part of the handler, up to the first await
Purchase(r, email, cart, priceFormatted) ==
  /\ Fresh(r)
  /\ IF ~Truthy(email)
       THEN reqs' = [reqs EXCEPT ![r] =
              [@ EXCEPT !.kind = "purchase", !.email = email,
                        !.resp = <<Response(400, FALSE, "Email is required")>>]]
       ELSE LET newOrder ==
                  [id |-> ToString(now), email |-> email,
                   items |-> IF cart = Undefined \/ cart = <<>> THEN <<>> ELSE cart,
                   total |-> priceFormatted, date |-> now, status |-> "Active"]
            IN  reqs' = [reqs EXCEPT ![r] =
                  IF ~creds
                    THEN [@ EXCEPT !.kind = "purchase", !.email = email,
                                   !.newOrder = newOrder, !.io = "read",
                                   !.resp = <<PurchaseFailed(MissingCreds)>>]
                    ELSE [@ EXCEPT !.kind = "purchase", !.email = email,
                                   !.newOrder = newOrder, !.io = "read",
                                   !.mail = "pending",
                                   !.msg = [to |-> email, subject |-> "Purchase Confirmation",
                                            id |-> newOrder.id]]]
  /\ UNCHANGED <<file, now, creds, catalog>>

\* a callback that fails the request when the ledger cannot be read
PurchaseRead_FailsRequest(r, outcome) ==
  /\ reqs[r].kind = "purchase"
  /\ reqs[r].io = "read"
  /\ outcome = "ok" => file.kind = "json"
  /\ outcome = "bad" => \E q \in Req : q # r /\ reqs[q].io = "write"
  /\ LET orders == IF outcome = "ok" THEN Parse(file) ELSE <<>>
     IN  reqs' = [reqs EXCEPT ![r] =
           [@ EXCEPT !.orders = Append(orders, reqs[r].newOrder), !.io = "write",
                     !.read = outcome, !.base = orders,
                     !.resp = IF outcome = "ok" THEN @
                              ELSE Append(@, Response(500, FALSE, "Failed to save order"))]]
  /\ UNCHANGED <<file, now, creds, catalog>>

\* the readFile callback of the purchase: parse or start empty, push, writeFile
PurchaseRead(r, outcome) ==
  /\ reqs[r].kind = "purchase"
  /\ reqs[r].io = "read"
  /\ outcome = "ok" => file.kind = "json"
  /\ outcome = "bad" => \E q \in Req : q # r /\ reqs[q].io = "write"
  /\ LET orders == IF outcome = "ok" THEN Parse(file) ELSE <<>>
     IN  reqs' = [reqs EXCEPT ![r] =
           [@ EXCEPT !.orders = Append(orders, reqs[r].newOrder), !.io = "write",
                     !.read = outcome, !.base = orders]]
  /\ UNCHANGED <<file, now, creds, catalog>>

\* a writer that appends to the file's text of the moment of the write
PurchaseWrite_Merge(r, ok) ==
  /\ reqs[r].kind = "purchase"
  /\ reqs[r].io = "write"
  /\ file' = IF ok
               THEN Stringify(Append(IF file.kind = "json" THEN Parse(file) ELSE <<>>,
                                     reqs[r].newOrder))
               ELSE file
  /\ reqs' = [reqs EXCEPT ![r] =
       [@ EXCEPT !.io = IF ok THEN "done" ELSE "failed", !.orders = <<>>]]
  /\ UNCHANGED <<now, creds, catalog>>

\* fs.writeFile of the purchase completes; its callback ignores the error
PurchaseWrite(r, ok) ==
  /\ reqs[r].kind = "purchase"
  /\ reqs[r].io = "write"
  /\ file' = IF ok THEN Stringify(reqs[r].orders) ELSE file
  /\ reqs' = [reqs EXCEPT ![r] =
       [@ EXCEPT !.io = IF ok THEN "done" ELSE "failed", !.orders = <<>>]]
  /\ UNCHANGED <<now, creds, catalog>>

\* await transporter.sendMail(...) settles
PurchaseMail(r, ok) ==
  /\ reqs[r].kind = "purchase"
  /\ reqs[r].mail = "pending"
  /\ ok => creds
  /\ reqs' = [reqs EXCEPT ![r] =
       IF ok
         THEN [@ EXCEPT !.mail = "sent",
                 !.resp = Append(@, Response(200, TRUE, "Confirmation sent to your email!"))]
         ELSE [@ EXCEPT !.mail = "failed",
                 !.resp = Append(@, PurchaseFailed(SendFailed))]]
  /\ UNCHANGED <<file, now, creds, catalog>>

\* ------------------------------------------------------ POST /cancel-order
\* orders.findIndex(match): the 0-based index of the first order that matches,
\* or -1; matches[i] is the predicate's value on orders[i]
FindIndex(matches) ==
  IF \E i \in 1..Len(matches) : matches[i]
    THEN (CHOOSE i \in 1..Len(matches) :
            matches[i] /\ \A j \in 1..(i - 1) : ~matches[j]) - 1
    ELSE -1

\* a status literal in another spelling
SetCancelled_Lowercase(orders, orderIndex) ==
  [orders EXCEPT ![orderIndex + 1] = [@ EXCEPT !.status = "cancelled"]]

\* orders[orderIndex].status = 'Cancelled'
SetCancelled(orders, orderIndex) ==
  [orders EXCEPT ![orderIndex + 1] = [@ EXCEPT !.status = "Cancelled"]]

\* a lookup by id alone, as the admin cancel does
OwnerMatch_IdOnly(o, orderId, email) == o.id = orderId

\* the findIndex predicate of the owner cancel
OwnerMatch(o, orderId, email) == o.id = orderId /\ o.email = email

\* a mail failure surfaced to the caller, as the purchase does
CancelMailFailed_Surfaced == Response(500, FALSE, "Order cancelled (Email failed)")

\* the response when the cancellation mail of the owner cancel fails
CancelMailFailed == Response(200, TRUE, "Order cancelled (Email failed)")

\* the handler up to fs.readFile
Cancel(r, orderId, email) ==
  /\ Fresh(r)
  /\ reqs' = [reqs EXCEPT ![r] =
       IF ~Truthy(orderId) \/ ~Truthy(email)
         THEN [@ EXCEPT !.kind = "cancel",
                 !.resp = <<Response(400, FALSE, "Missing orderId or email")>>]
         ELSE [@ EXCEPT !.kind = "cancel", !.orderId = orderId, !.email = email,
                 !.io = "read", !.late = AnsweredCancel(orderId)]]
  /\ UNCHANGED <<file, now, creds, catalog>>

\* the readFile callback of the owner cancel, up to fs.writeFile
CancelRead(r, outcome) ==
  /\ reqs[r].kind = "cancel"
  /\ reqs[r].io = "read"
  /\ outcome = "ok" => file.kind = "json"
  /\ outcome = "bad" => \E q \in Req : q # r /\ reqs[q].io = "write"
  /\ reqs' = [reqs EXCEPT ![r] =
       IF outcome = "err"
         THEN [@ EXCEPT !.io = "failed",
                 !.resp = Append(@, Response(500, FALSE, "Failed to read database"))]
       ELSE IF outcome = "bad"
         THEN [@ EXCEPT !.io = "failed", !.resp = Append(@, Response(500, FALSE, Undefined))]
       ELSE
         LET orders == Parse(file)
             orderIndex ==
               FindIndex([i \in 1..Len(orders) |->
                            OwnerMatch(orders[i], reqs[r].orderId, reqs[r].email)])
         IN  IF orderIndex = -1
               THEN [@ EXCEPT !.io = "done",
                       !.resp = Append(@, Response(404, FALSE, "Order not found"))]
             ELSE IF orders[orderIndex + 1].status = "Cancelled"
               THEN [@ EXCEPT !.io = "done",
                       !.resp = Append(@, Response(400, FALSE, "Order is already cancelled"))]
             ELSE [@ EXCEPT !.io = "write", !.orders = SetCancelled(orders, orderIndex),
                     !.read = outcome, !.base = orders]]
  /\ UNCHANGED <<file, now, creds, catalog>>

\* a callback that sends the mail before it looks at writeErr
CancelWrite_MailFirst(r, ok) ==
  /\ reqs[r].kind = "cancel"
  /\ reqs[r].io = "write"
  /\ file' = IF ok THEN Stringify(reqs[r].orders) ELSE file
  /\ reqs' = [reqs EXCEPT ![r] =
       [@ EXCEPT !.io = IF ok THEN "done" ELSE "failed", !.orders = <<>>,
                 !.mail = "pending",
                 !.msg = [to |-> reqs[r].email, subject |-> "Order Cancelled",
                          id |-> reqs[r].orderId]]]
  /\ UNCHANGED <<now, creds, catalog>>

\* the writeFile callback of the owner cancel, up to await sendMail
CancelWrite(r, ok) ==
  /\ reqs[r].kind = "cancel"
  /\ reqs[r].io = "write"
  /\ file' = IF ok THEN Stringify(reqs[r].orders) ELSE file
  /\ reqs' = [reqs EXCEPT ![r] =
       IF ok
         THEN [@ EXCEPT !.io = "done", !.orders = <<>>, !.mail = "pending",
                 !.msg = [to |-> reqs[r].email, subject |-> "Order Cancelled",
                          id |-> reqs[r].orderId]]
         ELSE [@ EXCEPT !.io = "failed", !.orders = <<>>,
                 !.resp = Append(@, Response(500, FALSE, "Failed to update order"))]]
  /\ UNCHANGED <<now, creds, catalog>>

\* await transporter.sendMail(...) of the owner cancel settles
CancelMail(r, ok) ==
  /\ reqs[r].kind = "cancel"
  /\ reqs[r].mail = "pending"
  /\ ok => creds
  /\ reqs' = [reqs EXCEPT ![r] =
       IF ok
         THEN [@ EXCEPT !.mail = "sent",
                 !.resp = Append(@, Response(200, TRUE, "Order cancelled and email sent"))]
         ELSE [@ EXCEPT !.mail = "failed", !.resp = Append(@, CancelMailFailed)]]
  /\ UNCHANGED <<file, now, creds, catalog>>

\* ------------------------------------------------ POST /admin/cancel-order
\* a notice with the wording of the owner cancel
AdminNotice_OwnerWording(to, orderId) ==
  [to |-> to, subject |-> "Order Cancelled", id |-> orderId]

\* the mail of the admin cancel: to userEmail, the administrator's wording
AdminNotice(to, orderId) ==
  [to |-> to, subject |-> "Order Cancelled by Admin", id |-> orderId]

AdminCancel(r, orderId) ==
  /\ Fresh(r)
  /\ reqs' = [reqs EXCEPT ![r] =
       IF ~Truthy(orderId)
         THEN [@ EXCEPT !.kind = "admin",
                 !.resp = <<Response(400, FALSE, "Missing orderId")>>]
         ELSE [@ EXCEPT !.kind = "admin", !.orderId = orderId, !.io = "read",
                 !.late = AnsweredCancel(orderId)]]
  /\ UNCHANGED <<file, now, creds, catalog>>

\* the readFile callback of the admin cancel, up to fs.writeFile
AdminCancelRead(r, outcome) ==
  /\ reqs[r].kind = "admin"
  /\ reqs[r].io = "read"
  /\ outcome = "ok" => file.kind = "json"
  /\ outcome = "bad" => \E q \in Req : q # r /\ reqs[q].io = "write"
  /\ reqs' = [reqs EXCEPT ![r] =
       IF outcome = "err"
         THEN [@ EXCEPT !.io = "failed",
                 !.resp = Append(@, Response(500, FALSE, "Failed to read database"))]
       ELSE IF outcome = "bad"
         THEN [@ EXCEPT !.io = "failed", !.resp = Append(@, Response(500, FALSE, Undefined))]
       ELSE
         LET orders == Parse(file)
             orderIndex ==
               FindIndex([i \in 1..Len(orders) |-> orders[i].id = reqs[r].orderId])
         IN  IF orderIndex = -1
               THEN [@ EXCEPT !.io = "done",
                       !.resp = Append(@, Response(404, FALSE, "Order not found"))]
             ELSE IF orders[orderIndex + 1].status = "Cancelled"
               THEN [@ EXCEPT !.io = "done",
                       !.resp = Append(@, Response(400, FALSE, "Order is already cancelled"))]
             ELSE [@ EXCEPT !.io = "write", !.orders = SetCancelled(orders, orderIndex),
                     !.email = orders[orderIndex + 1].email,
                     !.read = outcome, !.base = orders]]
  /\ UNCHANGED <<file, now, creds, catalog>>

\* the writeFile callback of the admin cancel, up to await sendMail
AdminCancelWrite(r, ok) ==
  /\ reqs[r].kind = "admin"
  /\ reqs[r].io = "write"
  /\ file' = IF ok THEN Stringify(reqs[r].orders) ELSE file
  /\ reqs' = [reqs EXCEPT ![r] =
       IF ok
         THEN [@ EXCEPT !.io = "done", !.orders = <<>>, !.mail = "pending",
                 !.msg = AdminNotice(reqs[r].email, reqs[r].orderId)]
         ELSE [@ EXCEPT !.io = "failed", !.orders = <<>>,
                 !.resp = Append(@, Response(500, FALSE, "Failed to update order"))]]
  /\ UNCHANGED <<now, creds, catalog>>

\* a handler that answers in the try block and again after it
AdminCancelMail_AnswersTwice(r, ok) ==
  /\ reqs[r].kind = "admin"
  /\ reqs[r].mail = "pending"
  /\ ok => creds
  /\ reqs' = [reqs EXCEPT ![r] =
       IF ok
         THEN [@ EXCEPT !.mail = "sent",
                 !.resp = @ \o <<Response(200, TRUE, "Order cancelled by Admin"),
                                Response(200, TRUE, "Order cancelled by Admin")>>]
         ELSE [@ EXCEPT !.mail = "failed",
                 !.resp = Append(@, Response(200, TRUE, "Order cancelled (Email failed)"))]]
  /\ UNCHANGED <<file, now, creds, catalog>>

\* await transporter.sendMail(...) of the admin cancel settles
AdminCancelMail(r, ok) ==
  /\ reqs[r].kind = "admin"
  /\ reqs[r].mail = "pending"
  /\ ok => creds
  /\ reqs' = [reqs EXCEPT ![r] =
       IF ok
         THEN [@ EXCEPT !.mail = "sent",
                 !.resp = Append(@, Response(200, TRUE, "Order cancelled by Admin"))]
         ELSE [@ EXCEPT !.mail = "failed",
                 !.resp = Append(@, Response(200, TRUE, "Order cancelled (Email failed)"))]]
  /\ UNCHANGED <<file, now, creds, catalog>>

\* ------------------------------------------------------------ the system
Next ==
  \/ Tick
  \/ \E r \in Req, e \in PurchaseEmailInputs, c \in Carts, t \in Totals : Purchase(r, e, c, t)
  \/ \E r \in Req, o \in ReadOutcomes : PurchaseRead(r, o)
  \/ \E r \in Req, ok \in BOOLEAN : PurchaseWrite(r, ok)
  \/ \E r \in Req, ok \in BOOLEAN : PurchaseMail(r, ok)
  \/ \E r \in Req, o \in OrderIdInputs, e \in EmailInputs : Cancel(r, o, e)
  \/ \E r \in Req, o \in ReadOutcomes : CancelRead(r, o)
  \/ \E r \in Req, ok \in BOOLEAN : CancelWrite(r, ok)
  \/ \E r \in Req, ok \in BOOLEAN : CancelMail(r, ok)
  \/ \E r \in Req, o \in OrderIdInputs : AdminCancel(r, o)
  \/ \E r \in Req, o \in ReadOutcomes : AdminCancelRead(r, o)
  \/ \E r \in Req, ok \in BOOLEAN : AdminCancelWrite(r, ok)
  \/ \E r \in Req, ok \in BOOLEAN : AdminCancelMail(r, ok)

Spec == Init /\ [][Next]_vars

\* --------------------------------------------- one request at a time
\* no request has storage or mail I/O outstanding
Quiet == \A q \in Req : ~InFlight(q)

\* the routes when a request arrives only after the one before it has finished
\* all of its I/O (the callbacks of a request still interleave with its mail)
NextSeq ==
  \/ Tick
  \/ Quiet /\ \E r \in Req, e \in PurchaseEmailInputs, c \in Carts, t \in Totals :
                Purchase(r, e, c, t)
  \/ \E r \in Req, o \in ReadOutcomes : PurchaseRead(r, o)
  \/ \E r \in Req, ok \in BOOLEAN : PurchaseWrite(r, ok)
  \/ \E r \in Req, ok \in BOOLEAN : PurchaseMail(r, ok)
  \/ Quiet /\ \E r \in Req, o \in OrderIdInputs, e \in EmailInputs : Cancel(r, o, e)
  \/ \E r \in Req, o \in ReadOutcomes : CancelRead(r, o)
  \/ \E r \in Req, ok \in BOOLEAN : CancelWrite(r, ok)
  \/ \E r \in Req, ok \in BOOLEAN : CancelMail(r, ok)
  \/ Quiet /\ \E r \in Req, o \in OrderIdInputs : AdminCancel(r, o)
  \/ \E r \in Req, o \in ReadOutcomes : AdminCancelRead(r, o)
  \/ \E r \in Req, ok \in BOOLEAN : AdminCancelWrite(r, ok)
  \/ \E r \in Req, ok \in BOOLEAN : AdminCancelMail(r, ok)

\* a completion of storage or mail I/O: the callback of some request runs
Callback ==
  \E r \in Req :
    \/ \E o \in ReadOutcomes :
         PurchaseRead(r, o) \/ CancelRead(r, o) \/ AdminCancelRead(r, o)
    \/ \E ok \in BOOLEAN :
         \/ PurchaseWrite(r, ok) \/ CancelWrite(r, ok) \/ AdminCancelWrite(r, ok)
         \/ PurchaseMail(r, ok) \/ CancelMail(r, ok) \/ AdminCancelMail(r, ok)

\* the order routes on an event loop that keeps running: while some I/O is
\* outstanding, some completion is eventually delivered
Fairness == WF_vars(Callback)

\* the routes within one value of Date.now(): the clock plays no part in
\* whether and how often a request is answered
NextFair ==
  \/ \E r \in Req, e \in PurchaseEmailInputs, c \in Carts, t \in Totals : Purchase(r, e, c, t)
  \/ \E r \in Req, o \in OrderIdInputs, e \in EmailInputs : Cancel(r, o, e)
  \/ \E r \in Req, o \in OrderIdInputs : AdminCancel(r, o)
  \/ Callback

SpecFair == Init /\ [][NextFair]_vars /\ Fairness

SpecSeq == Init /\ [][NextSeq]_vars

\* ------------------------------------- GET /orders and GET /admin/orders
MaxLedger == 3

\* the order a purchase by email at time t leaves in the ledger, in either status
SeedOrder(t, email, status) ==
  [id |-> ToString(t), email |-> email, items |-> <<>>, total |-> "3900",
   date |-> t, status |-> status]

\* the ledgers of up to MaxLedger orders, the order at position i bought at i - 1
Ledgers ==
  UNION {{[i \in 1..n |-> SeedOrder(i - 1, e[i], st[i])] :
            e \in [1..n -> Emails], st \in [1..n -> {"Active", "Cancelled"}]} :
         n \in 0..MaxLedger}

\* res.json(body) and res.status(code).json({ error })
Json(body) == [code |-> 200, body |-> body]
JsonError(code, error) == [code |-> code, error |-> error]

\* Array.prototype.filter with o => o.email === email
RECURSIVE FilterByEmail(_, _)
FilterByEmail(orders, email) ==
  IF orders = <<>> THEN <<>>
  ELSE IF Head(orders).email = email
    THEN <<Head(orders)>> \o FilterByEmail(Tail(orders), email)
    ELSE FilterByEmail(Tail(orders), email)

\* a listing in the order of the file
Reverse_Kept(orders) == orders

\* Array.prototype.reverse
Reverse(orders) == [i \in 1..Len(orders) |-> orders[Len(orders) + 1 - i]]

\* GET /orders up to fs.readFile
Orders(r, email) ==
  /\ Fresh(r)
  /\ reqs' = [reqs EXCEPT ![r] =
       IF ~Truthy(email)
         THEN [@ EXCEPT !.kind = "orders", !.email = email,
                 !.resp = <<JsonError(400, "Email parameter required")>>]
         ELSE [@ EXCEPT !.kind = "orders", !.email = email, !.io = "read"]]
  /\ UNCHANGED <<file, now, creds, catalog>>

\* the readFile callback of GET /orders
OrdersRead(r, outcome) ==
  /\ reqs[r].kind = "orders"
  /\ reqs[r].io = "read"
  /\ outcome = "ok" => file.kind = "json"
  /\ outcome = "bad" => \E q \in Req : q # r /\ reqs[q].io = "write"
  /\ reqs' = [reqs EXCEPT ![r] =
       [@ EXCEPT !.io = "done", !.read = outcome,
          !.resp = CASE outcome = "err" -> <<JsonError(500, "Failed to read orders")>>
                     [] outcome = "bad" -> <<JsonError(500, "Failed to parse orders")>>
                     [] outcome = "ok" ->
                          <<Json(Reverse(FilterByEmail(Parse(file), reqs[r].email)))>>]]
  /\ UNCHANGED <<file, now, creds, catalog>>

\* GET /admin/orders up to fs.readFile
AdminOrders(r) ==
  /\ Fresh(r)
  /\ reqs' = [reqs EXCEPT ![r] = [@ EXCEPT !.kind = "adminOrders", !.io = "read"]]
  /\ UNCHANGED <<file, now, creds, catalog>>

\* the readFile callback of GET /admin/orders
AdminOrdersRead(r, outcome) ==
  /\ reqs[r].kind = "adminOrders"
  /\ reqs[r].io = "read"
  /\ outcome = "ok" => file.kind = "json"
  /\ outcome = "bad" => \E q \in Req : q # r /\ reqs[q].io = "write"
  /\ reqs' = [reqs EXCEPT ![r] =
       [@ EXCEPT !.io = "done", !.read = outcome,
          !.resp = CASE outcome = "err" -> <<JsonError(500, "Failed to read orders")>>
                     [] outcome = "bad" -> <<JsonError(500, "Failed to parse orders")>>
                     [] outcome = "ok" -> <<Json(Reverse(Parse(file)))>>]]
  /\ UNCHANGED <<file, now, creds, catalog>>

\* the listings over any persisted ledger
InitList ==
  /\ file \in {Absent} \cup {Stringify(l) : l \in Ledgers}
  /\ now = MaxClock
  /\ creds \in BOOLEAN
  /\ reqs = [r \in Req |-> IdleReq]
  /\ CatalogIdle

NextList ==
  \/ \E r \in Req, e \in EmailInputs : Orders(r, e)
  \/ \E r \in Req, o \in ReadOutcomes : OrdersRead(r, o)
  \/ \E r \in Req : AdminOrders(r)
  \/ \E r \in Req, o \in ReadOutcomes : AdminOrdersRead(r, o)

SpecList == InitList /\ [][NextList]_vars

\* ------------------------------------------------------------- /categories
MaxCategories == 2

Names == {"Phones", "Audio", "TV"}
Icons == {"fa-a"}

\* a body field that holds a list: missing, a string, or an array
Missing == [type |-> "undefined", items |-> <<>>]
NameLists ==
  {Missing, [type |-> "string", items |-> <<"Phones">>]} \cup
  {[type |-> "array", items |-> l] :
     l \in {<<>>, <<"Phones">>, <<"Phones", "Audio">>, <<"Audio", "Phones">>, <<"TV">>}}

\* !names || !Array.isArray(names)
IsArray(v) == v.type = "array"

\* the collections of up to MaxCategories categories with distinct names
CategoryLists ==
  UNION {{l \in [1..n -> [name : Names, icon : Icons]] :
            \A i, j \in 1..n : i # j => l[i].name # l[j].name} :
         n \in 0..MaxCategories}

\* storage I/O of catalog request c is outstanding
Pending(c) == calls[c].io \in {"read", "write"}

\* a catalog request arrives in the next free slot
FreshCall(c) ==
  /\ calls[c].kind = "none"
  /\ \A d \in Call : d < c => calls[d].kind # "none"
  /\ Cardinality({d \in Call : Pending(d)}) < MaxInFlight

\* fs.readFile(CATEGORIES_FILE) ends with outcome
ReadsCategories(c, outcome) ==
  /\ calls[c].io = "read"
  /\ outcome = "ok" => categoriesFile.kind = "json"
  /\ outcome = "bad" => \E d \in Call : d # c /\ calls[d].io = "write"

\* fs.writeFile(CATEGORIES_FILE, JSON.stringify(categories)) ends; the callback
\* answers with error or with the success message
WritesCategories(c, ok, error, message) ==
  /\ calls[c].io = "write"
  /\ categoriesFile' = IF ok THEN Stringify(calls[c].data) ELSE categoriesFile
  /\ calls' = [calls EXCEPT ![c] =
       [@ EXCEPT !.io = "done", !.data = <<>>, !.names = <<>>,
          !.resp = IF ok THEN <<Response(200, TRUE, message)>>
                         ELSE <<JsonError(500, error)>>]]
  /\ UNCHANGED <<file, now, creds, reqs, productsFile>>

\* POST /categories up to fs.readFile
PostCategory(c, name, icon) ==
  /\ FreshCall(c)
  /\ calls' = [calls EXCEPT ![c] =
       IF ~Truthy(name) \/ ~Truthy(icon)
         THEN [@ EXCEPT !.kind = "postCategory",
                 !.resp = <<JsonError(400, "Name and icon are required")>>]
         ELSE [@ EXCEPT !.kind = "postCategory", !.io = "read",
                 !.data = <<[name |-> name, icon |-> icon]>>]]
  /\ UNCHANGED <<file, now, creds, reqs, categoriesFile, productsFile>>

\* the readFile callback of POST /categories: parse or start empty, push
PostCategoryRead(c, outcome) ==
  /\ calls[c].kind = "postCategory"
  /\ ReadsCategories(c, outcome)
  /\ LET categories == IF outcome = "ok" THEN Parse(categoriesFile) ELSE <<>>
     IN  calls' = [calls EXCEPT ![c] =
           [@ EXCEPT !.io = "write", !.data = categories \o calls[c].data]]
  /\ UNCHANGED <<file, now, creds, reqs, categoriesFile, productsFile>>

PostCategoryWrite(c, ok) ==
  /\ calls[c].kind = "postCategory"
  /\ WritesCategories(c, ok, "Failed to save category", "Category added successfully")

\* the response of a readFile callback that stops at a read or parse failure
ReadFailed(outcome, readError, parseError) ==
  IF outcome = "err" THEN JsonError(500, readError) ELSE JsonError(500, parseError)

\* Array.prototype.includes
Includes(list, x) == \E i \in 1..Len(list) : list[i] = x

\* categories.filter(cat => !names.includes(cat.name))
RECURSIVE WithoutNames(_, _)
WithoutNames(categories, names) ==
  IF categories = <<>> THEN <<>>
  ELSE IF Includes(names, Head(categories).name)
    THEN WithoutNames(Tail(categories), names)
    ELSE <<Head(categories)>> \o WithoutNames(Tail(categories), names)

\* DELETE /categories/bulk up to fs.readFile
BulkDeleteCategories(c, names) ==
  /\ FreshCall(c)
  /\ calls' = [calls EXCEPT ![c] =
       IF names = Missing \/ ~IsArray(names)
         THEN [@ EXCEPT !.kind = "bulkDeleteCategories",
                 !.resp = <<JsonError(400, "Names array required")>>]
         ELSE [@ EXCEPT !.kind = "bulkDeleteCategories", !.io = "read",
                 !.names = names.items]]
  /\ UNCHANGED <<file, now, creds, reqs, categoriesFile, productsFile>>

\* the readFile callback of DELETE /categories/bulk
BulkDeleteCategoriesRead(c, outcome) ==
  /\ calls[c].kind = "bulkDeleteCategories"
  /\ ReadsCategories(c, outcome)
  /\ calls' = [calls EXCEPT ![c] =
       IF outcome # "ok"
         THEN [@ EXCEPT !.io = "done", !.names = <<>>,
                 !.resp = <<ReadFailed(outcome, "Failed to read categories",
                                       "Failed to parse categories")>>]
         ELSE [@ EXCEPT !.io = "write",
                 !.data = WithoutNames(Parse(categoriesFile), calls[c].names)]]
  /\ UNCHANGED <<file, now, creds, reqs, categoriesFile, productsFile>>

BulkDeleteCategoriesWrite(c, ok) ==
  /\ calls[c].kind = "bulkDeleteCategories"
  /\ WritesCategories(c, ok, "Failed to delete categories",
                      "Categories deleted successfully")

\* DELETE /categories/:name up to fs.readFile
DeleteCategory(c, name) ==
  /\ FreshCall(c)
  /\ calls' = [calls EXCEPT ![c] =
       [@ EXCEPT !.kind = "deleteCategory", !.io = "read", !.names = <<name>>]]
  /\ UNCHANGED <<file, now, creds, reqs, categoriesFile, productsFile>>

\* the readFile callback of DELETE /categories/:name
DeleteCategoryRead(c, outcome) ==
  /\ calls[c].kind = "deleteCategory"
  /\ ReadsCategories(c, outcome)
  /\ calls' = [calls EXCEPT ![c] =
       IF outcome # "ok"
         THEN [@ EXCEPT !.io = "done", !.names = <<>>,
                 !.resp = <<ReadFailed(outcome, "Failed to read categories",
                                       "Failed to parse categories")>>]
         ELSE LET categories == Parse(categoriesFile)
                  kept == SelectSeq(categories, LAMBDA cat : cat.name # calls[c].names[1])
              IN  IF Len(kept) = Len(categories)
                    THEN [@ EXCEPT !.io = "done", !.names = <<>>,
                            !.resp = <<JsonError(404, "Category not found")>>]
                    ELSE [@ EXCEPT !.io = "write", !.data = kept]]
  /\ UNCHANGED <<file, now, creds, reqs, categoriesFile, productsFile>>

DeleteCategoryWrite(c, ok) ==
  /\ calls[c].kind = "deleteCategory"
  /\ WritesCategories(c, ok, "Failed to delete category", "Category deleted")

\* PUT /categories/:name up to fs.readFile; names holds oldName, newName, icon
PutCategory(c, oldName, newName, icon) ==
  /\ FreshCall(c)
  /\ calls' = [calls EXCEPT ![c] =
       [@ EXCEPT !.kind = "putCategory", !.io = "read",
          !.names = <<oldName, newName, icon>>]]
  /\ UNCHANGED <<file, now, creds, reqs, categoriesFile, productsFile>>

\* the readFile callback of PUT /categories/:name
PutCategoryRead(c, outcome) ==
  /\ calls[c].kind = "putCategory"
  /\ ReadsCategories(c, outcome)
  /\ calls' = [calls EXCEPT ![c] =
       IF outcome # "ok"
         THEN [@ EXCEPT !.io = "done", !.names = <<>>,
                 !.resp = <<ReadFailed(outcome, "Failed to read categories",
                                       "Failed to parse")>>]
         ELSE LET categories == Parse(categoriesFile)
                  oldName == calls[c].names[1]
                  newName == calls[c].names[2]
                  icon == calls[c].names[3]
                  catIndex == FindIndex([i \in 1..Len(categories) |->
                                          categories[i].name = oldName])
              IN  IF catIndex = -1
                    THEN [@ EXCEPT !.io = "done", !.names = <<>>,
                            !.resp = <<Response(404, FALSE, "Category not found")>>]
                  ELSE IF /\ Truthy(newName)
                          /\ newName # oldName
                          /\ \E i \in 1..Len(categories) : categories[i].name = newName
                    THEN [@ EXCEPT !.io = "done", !.names = <<>>,
                            !.resp = <<Response(400, FALSE, "Category name already exists")>>]
                    ELSE [@ EXCEPT !.io = "write",
                            !.data = [categories EXCEPT ![catIndex + 1] =
                               [name |-> IF Truthy(newName) THEN newName ELSE @.name,
                                icon |-> IF Truthy(icon) THEN icon ELSE @.icon]]]]
  /\ UNCHANGED <<file, now, creds, reqs, categoriesFile, productsFile>>

PutCategoryWrite(c, ok) ==
  /\ calls[c].kind = "putCategory"
  /\ WritesCategories(c, ok, "Failed to update category", "Category updated")

\* the category routes over any collection with distinct names
InitCategories ==
  /\ file = Absent
  /\ now = 1
  /\ creds = FALSE
  /\ reqs = [r \in Req |-> IdleReq]
  /\ categoriesFile \in {Absent} \cup {Stringify(l) : l \in CategoryLists}
  /\ productsFile = Absent
  /\ calls = [c \in Call |-> IdleCall]

NextCategories ==
  \/ \E c \in Call, n \in {Undefined, "Phones"}, i \in Icons \cup {Undefined} :
       PostCategory(c, n, i)
  \/ \E c \in Call, o \in ReadOutcomes : PostCategoryRead(c, o)
  \/ \E c \in Call, ok \in BOOLEAN : PostCategoryWrite(c, ok)
  \/ \E c \in Call, l \in NameLists : BulkDeleteCategories(c, l)
  \/ \E c \in Call, o \in ReadOutcomes : BulkDeleteCategoriesRead(c, o)
  \/ \E c \in Call, ok \in BOOLEAN : BulkDeleteCategoriesWrite(c, ok)
  \/ \E c \in Call, n \in {"Phones"} : DeleteCategory(c, n)
  \/ \E c \in Call, o \in ReadOutcomes : DeleteCategoryRead(c, o)
  \/ \E c \in Call, ok \in BOOLEAN : DeleteCategoryWrite(c, ok)
  \/ \E c \in Call, n \in {"Audio"}, m \in {Undefined, "Phones"}, i \in {Undefined, "fa-b"} :
       PutCategory(c, n, m, i)
  \/ \E c \in Call, o \in ReadOutcomes : PutCategoryRead(c, o)
  \/ \E c \in Call, ok \in BOOLEAN : PutCategoryWrite(c, ok)

SpecCategories == InitCategories /\ [][NextCategories]_vars

\* --------------------------------------------------------------- /products
MaxProducts == 2

\* the product at position i of products.json
Product(i) == [name |-> "P" \o ToString(i), price |-> "10", img |-> "images/p.png"]

\* the collections of up to MaxProducts products
ProductLists == {[i \in 1..n |-> Product(i - 1)] : n \in 0..MaxProducts}

\* req.params.index, character by character
IndexInputs ==
  {<<"0">>, <<"1">>, <<"5">>, <<"-", "1">>, <<"a", "b", "c">>, <<"1", "a">>}

\* the truthy fields of the body of PUT /products/:index
FieldInputs == {{}, {"name"}}

\* a JavaScript number: an integer or NaN
NaN == [nan |-> TRUE, n |-> 0]
Number(n) == [nan |-> FALSE, n |-> n]

IsDigit(ch) == \E d \in 0..9 : Digit(d) = ch
DigitValue(ch) == CHOOSE d \in 0..9 : Digit(d) = ch

\* the value of the longest prefix of digits of str, after the digits of acc
RECURSIVE LeadingDigits(_, _)
LeadingDigits(str, acc) ==
  IF str = <<>> \/ ~IsDigit(Head(str)) THEN acc
  ELSE LeadingDigits(Tail(str), 10 * acc + DigitValue(Head(str)))

\* parseInt(str): an optional sign, then the leading decimal digits; NaN
\* when there is none
ParseInt(str) ==
  LET digits == IF str # <<>> /\ Head(str) = "-" THEN Tail(str) ELSE str
  IN  IF digits = <<>> \/ ~IsDigit(Head(digits)) THEN NaN
      ELSE IF Head(str) = "-" THEN Number(0 - LeadingDigits(digits, 0))
      ELSE Number(LeadingDigits(digits, 0))

\* a < b and a >= b on numbers: both false when either is NaN
Less(a, b) == ~a.nan /\ ~b.nan /\ a.n < b.n
AtLeast(a, b) == ~a.nan /\ ~b.nan /\ a.n >= b.n

\* index < 0 || index >= products.length
InvalidIndex(index, products) ==
  Less(index, Number(0)) \/ AtLeast(index, Number(Len(products)))

\* products.splice(index, 1) for an index that is not negative: the start is
\* ToIntegerOrInfinity(index), 0 for NaN; nothing goes when it is past the end
Splice(products, index) ==
  LET start == IF index.nan THEN 0 ELSE index.n
  IN  [i \in 1..(IF start < Len(products) THEN Len(products) - 1 ELSE Len(products)) |->
         IF i <= start THEN products[i] ELSE products[i + 1]]

\* the server process has not died of an uncaught exception
Up == \A c \in Call : calls[c].io # "crashed"

\* fs.readFile(PRODUCTS_FILE) ends with outcome
ReadsProducts(c, outcome) ==
  /\ Up
  /\ calls[c].io = "read"
  /\ outcome = "ok" => productsFile.kind = "json"
  /\ outcome = "bad" => \E d \in Call : d # c /\ calls[d].io = "write"

\* fs.writeFile(PRODUCTS_FILE, JSON.stringify(products)) ends; the callback
\* answers with error or with the success message
WritesProducts(c, ok, error, message) ==
  /\ Up
  /\ calls[c].io = "write"
  /\ productsFile' = IF ok THEN Stringify(calls[c].data) ELSE productsFile
  /\ calls' = [calls EXCEPT ![c] =
       [@ EXCEPT !.io = "done", !.data = <<>>, !.param = <<>>, !.fields = {},
          !.resp = IF ok THEN <<Response(200, TRUE, message)>>
                         ELSE <<JsonError(500, error)>>]]
  /\ UNCHANGED <<file, now, creds, reqs, categoriesFile>>

\* DELETE /products/:index up to fs.readFile
DeleteProduct(c, param) ==
  /\ Up
  /\ FreshCall(c)
  /\ calls' = [calls EXCEPT ![c] =
       [@ EXCEPT !.kind = "deleteProduct", !.io = "read", !.param = param]]
  /\ UNCHANGED <<file, now, creds, reqs, categoriesFile, productsFile>>

\* the readFile callback of DELETE /products/:index
DeleteProductRead(c, outcome) ==
  /\ calls[c].kind = "deleteProduct"
  /\ ReadsProducts(c, outcome)
  /\ calls' = [calls EXCEPT ![c] =
       IF outcome # "ok"
         THEN [@ EXCEPT !.io = "done", !.param = <<>>, !.fields = {},
                 !.resp = <<ReadFailed(outcome, "Failed to read products",
                                       "Failed to parse products")>>]
         ELSE LET products == Parse(productsFile)
                  index == ParseInt(calls[c].param)
              IN  IF InvalidIndex(index, products)
                    THEN [@ EXCEPT !.io = "done", !.param = <<>>, !.fields = {},
                            !.resp = <<JsonError(400, "Invalid product index")>>]
                    ELSE [@ EXCEPT !.io = "write", !.data = Splice(products, index)]]
  /\ UNCHANGED <<file, now, creds, reqs, categoriesFile, productsFile>>

DeleteProductWrite(c, ok) ==
  /\ calls[c].kind = "deleteProduct"
  /\ WritesProducts(c, ok, "Failed to delete product", "Product deleted")

\* PUT /products/:index up to fs.readFile
PutProduct(c, param, fields) ==
  /\ Up
  /\ FreshCall(c)
  /\ calls' = [calls EXCEPT ![c] =
       [@ EXCEPT !.kind = "putProduct", !.io = "read", !.param = param,
          !.fields = fields]]
  /\ UNCHANGED <<file, now, creds, reqs, categoriesFile, productsFile>>

\* the readFile callback of PUT /products/:index; with a NaN index
\* products[index] is undefined, and assigning a field of it throws
PutProductRead(c, outcome) ==
  /\ calls[c].kind = "putProduct"
  /\ ReadsProducts(c, outcome)
  /\ calls' = [calls EXCEPT ![c] =
       IF outcome # "ok"
         THEN [@ EXCEPT !.io = "done", !.param = <<>>, !.fields = {},
                 !.resp = <<ReadFailed(outcome, "Failed to read products",
                                       "Failed to parse")>>]
         ELSE LET products == Parse(productsFile)
                  index == ParseInt(calls[c].param)
              IN  IF InvalidIndex(index, products)
                    THEN [@ EXCEPT !.io = "done", !.param = <<>>, !.fields = {},
                            !.resp = <<JsonError(400, "Invalid index")>>]
                  ELSE IF index.nan
                    THEN IF calls[c].fields # {}
                           THEN [@ EXCEPT !.io = "crashed", !.param = <<>>, !.fields = {}]
                           ELSE [@ EXCEPT !.io = "write", !.data = products]
                    ELSE [@ EXCEPT !.io = "write",
                            !.data = [products EXCEPT ![index.n + 1] =
                               [@ EXCEPT !.name = IF "name" \in calls[c].fields
                                                     THEN "Renamed" ELSE @]]]]
  /\ UNCHANGED <<file, now, creds, reqs, categoriesFile, productsFile>>

PutProductWrite(c, ok) ==
  /\ calls[c].kind = "putProduct"
  /\ WritesProducts(c, ok, "Failed to update product", "Product updated")

\* the indexed product routes over any persisted collection
InitProducts ==
  /\ file = Absent
  /\ now = 1
  /\ creds = FALSE
  /\ reqs = [r \in Req |-> IdleReq]
  /\ categoriesFile = Absent
  /\ productsFile \in {Absent} \cup {Stringify(l) : l \in ProductLists}
  /\ calls = [c \in Call |-> IdleCall]

NextProducts ==
  \/ \E c \in Call, i \in IndexInputs : DeleteProduct(c, i)
  \/ \E c \in Call, o \in ReadOutcomes : DeleteProductRead(c, o)
  \/ \E c \in Call, ok \in BOOLEAN : DeleteProductWrite(c, ok)
  \/ \E c \in Call, i \in IndexInputs, f \in FieldInputs : PutProduct(c, i, f)
  \/ \E c \in Call, o \in ReadOutcomes : PutProductRead(c, o)
  \/ \E c \in Call, ok \in BOOLEAN : PutProductWrite(c, ok)

SpecProducts == InitProducts /\ [][NextProducts]_vars
\* ================================================================ properties
\* the orders of the persisted ledger (none while orders.json is absent)
Ledger == IF file.kind = "json" THEN file.orders ELSE <<>>

Cancels == {r \in Req : reqs[r].kind \in {"cancel", "admin"}}
Purchases == {r \in Req : reqs[r].kind = "purchase"}

\* request r has been answered with success
Succeeded(r) == \E k \in 1..Len(reqs[r].resp) : reqs[r].resp[k].success

\* C1: an order that is Cancelled in the ledger is not Active in the next state
\* of the ledger (the order is the one at the same position with the same id).
C1_StatusMonotonic ==
  [][\A i \in 1..Len(Ledger) :
       (/\ Ledger[i].status = "Cancelled"
        /\ i <= Len(Ledger')
        /\ Ledger'[i].id = Ledger[i].id) => Ledger'[i].status # "Active"]_vars

\* C2: every order of the ledger is in the next state of the ledger, with the
\* same id and email.
C2_NeverDeleted ==
  [][\A i \in 1..Len(Ledger) :
       \E j \in 1..Len(Ledger') :
         Ledger'[j].id = Ledger[i].id /\ Ledger'[j].email = Ledger[i].email]_vars

\* C3: no two orders of the ledger have the same id.
C3_UniqueIds ==
  \A i, j \in 1..Len(Ledger) : i # j => Ledger[i].id # Ledger[j].id

\* C4: a cancel request that arrives after a cancel of the same order was
\* answered with success never gets to write the ledger, is never answered with
\* success, and, when it finds the order, is answered 400 'already cancelled'.
C4_SecondCancelRejected ==
  \A r \in Cancels :
    reqs[r].late =>
      /\ reqs[r].io # "write"
      /\ ~Succeeded(r)
      /\ \A k \in 1..Len(reqs[r].resp) :
           reqs[r].resp[k].code \notin {404, 500} =>
             reqs[r].resp[k] = Response(400, FALSE, "Order is already cancelled")

\* C5: every order of the ledger has a non-empty id, a non-empty email and a
\* status that is Active or Cancelled.
C5_OrdersWellFormed ==
  \A i \in 1..Len(Ledger) :
    /\ Ledger[i].id \notin {"", Undefined}
    /\ Ledger[i].email \notin {"", Undefined}
    /\ Ledger[i].status \in {"Active", "Cancelled"}

\* C5 witness: the ledger holds a Cancelled order and an order a purchase made.
C5_Witness ==
  /\ \E i \in 1..Len(Ledger) : Ledger[i].status = "Cancelled"
  /\ \E i \in 1..Len(Ledger) : Ledger[i].id # "0" /\ Ledger[i].status = "Active"

\* the readFile callback of owner cancel r runs in this step with the file's text
OwnerReads(r) ==
  /\ reqs[r].kind = "cancel"
  /\ reqs[r].io = "read"
  /\ reqs'[r].io \in {"done", "write"}

\* the orderId of r names an order of the ledger, under another email only
Mismatched(r) ==
  /\ \E i \in 1..Len(Ledger) : Ledger[i].id = reqs[r].orderId
  /\ \A i \in 1..Len(Ledger) :
       Ledger[i].id = reqs[r].orderId => Ledger[i].email # reqs[r].email

\* the orderId of r names no order of the ledger
Unknown(r) == \A i \in 1..Len(Ledger) : Ledger[i].id # reqs[r].orderId

NotFound == Response(404, FALSE, "Order not found")

\* C6: an owner cancel that reads a ledger where its orderId exists under
\* another email is answered 404 'Order not found', as for an unknown orderId;
\* a request answered so has no write and no mail, pending or done.
C6_MismatchIsNotFound ==
  /\ [][\A r \in Req :
          OwnerReads(r) /\ (Mismatched(r) \/ Unknown(r)) =>
            /\ reqs'[r].resp = <<NotFound>>
            /\ reqs'[r].io = "done"
            /\ file' = file]_vars
  /\ [](\A r \in Req :
          reqs[r].kind = "cancel" /\ reqs[r].resp = <<NotFound>> =>
            reqs[r].io = "done" /\ reqs[r].mail = "none" /\ reqs[r].msg = NoMail)

\* C6 witness: an owner cancel was answered 404 while the ledger holds its
\* orderId under another email.
C6_Witness ==
  \E r \in Req :
    /\ reqs[r].kind = "cancel"
    /\ reqs[r].resp = <<NotFound>>
    /\ Mismatched(r)

\* the writeFile callback of cancel r runs in this step without an error
CancelWrote(r) ==
  /\ reqs[r].kind \in {"cancel", "admin"}
  /\ reqs[r].io = "write"
  /\ reqs'[r].io = "done"

\* sendMail of cancel r fails in this step
CancelMailFails(r) ==
  /\ reqs[r].kind \in {"cancel", "admin"}
  /\ reqs[r].mail = "pending"
  /\ reqs'[r].mail = "failed"

\* C7: in both cancel flows the successful write leaves the order Cancelled in
\* the ledger, and when the mail then fails the request is answered with
\* success (200) and the ledger is not written again.
C7_CancelSurvivesMailFailure ==
  [][\A r \in Req :
       /\ CancelWrote(r) =>
            \E i \in 1..Len(Ledger') :
              Ledger'[i].id = reqs[r].orderId /\ Ledger'[i].status = "Cancelled"
       /\ CancelMailFails(r) =>
            /\ Len(reqs'[r].resp) = 1
            /\ reqs'[r].resp[1].code = 200
            /\ reqs'[r].resp[1].success
            /\ file' = file
            /\ reqs'[r].io = "done"]_vars

\* C7 witness: an owner cancel and an admin cancel whose mails failed were
\* answered with success and their orders are Cancelled in the ledger.
C7_Witness ==
  \E r, q \in Req :
    /\ reqs[r].kind = "cancel" /\ reqs[q].kind = "admin"
    /\ reqs[r].mail = "failed" /\ reqs[q].mail = "failed"
    /\ Succeeded(r) /\ Succeeded(q)
    /\ \A x \in {r, q} :
         \E i \in 1..Len(Ledger) :
           Ledger[i].id = reqs[x].orderId /\ Ledger[i].status = "Cancelled"

\* C8: a purchase whose confirmation mail has been handed to the transporter,
\* or that has been answered, has written its order to the ledger before.
C8_PersistThenNotify ==
  \A r \in Purchases :
    reqs[r].newOrder # NoOrder /\ (reqs[r].mail # "none" \/ reqs[r].resp # <<>>) =>
      reqs[r].io = "done"

\* the confirmation mail of purchase r has failed (send error or no credentials)
PurchaseMailFailed(r) ==
  /\ reqs[r].kind = "purchase"
  /\ reqs[r].newOrder # NoOrder
  /\ reqs[r].mail = "failed" \/ ~creds

\* the order of purchase r is in the ledger, Active
OrderPersisted(r) ==
  \E i \in 1..Len(Ledger) :
    Ledger[i] = reqs[r].newOrder /\ Ledger[i].status = "Active"

\* C9 as claimed: a purchase whose mail failed is answered 500 with the mail
\* error, and when its storage I/O finishes its order is in the ledger, Active.
C9_PersistedDespiteMailFailure ==
  [][\A r \in Req :
       PurchaseMailFailed(r) /\ reqs[r].io = "write" /\ reqs'[r].io \in {"done", "failed"} =>
         /\ OrderPersisted(r)'
         /\ \E m \in {MissingCreds, SendFailed} :
              reqs'[r].resp = <<Response(500, FALSE, PurchaseError(m))>>]_vars

\* C9 amended: a purchase whose mail failed is answered 500 with the mail
\* error; when its write succeeds its order is in the ledger, Active; the
\* failing mail writes nothing.
C9_PersistedWhenWritten ==
  /\ [](\A r \in Req :
          PurchaseMailFailed(r) =>
            \E m \in {MissingCreds, SendFailed} :
              reqs[r].resp = <<Response(500, FALSE, PurchaseError(m))>>)
  /\ [][\A r \in Req :
          /\ (reqs[r].kind = "purchase" /\ reqs[r].io = "write" /\ reqs'[r].io = "done")
               => OrderPersisted(r)'
          /\ (reqs[r].kind = "purchase" /\ reqs[r].mail = "pending"
              /\ reqs'[r].mail = "failed") => file' = file /\ reqs'[r].io = reqs[r].io]_vars

\* C9 witness: a purchase whose mail failed has written its order.
C9_Witness ==
  \E r \in Req :
    /\ PurchaseMailFailed(r)
    /\ reqs[r].mail = "failed"
    /\ reqs[r].io = "done"
    /\ OrderPersisted(r)

\* C10: a purchase without an email, or with an empty one, is answered 400
\* 'Email is required', builds no order, starts no storage I/O and no mail.
C10_EmailRequired ==
  \A r \in Purchases :
    reqs[r].email \in {Undefined, ""} =>
      /\ reqs[r].resp = <<Response(400, FALSE, "Email is required")>>
      /\ reqs[r].newOrder = NoOrder
      /\ reqs[r].io = "none"
      /\ reqs[r].mail = "none"
      /\ reqs[r].msg = NoMail

\* C10 witness: a purchase with an empty email was answered 400 and the ledger
\* holds the one order it held at the start.
C10_Witness ==
  \E r \in Purchases :
    /\ reqs[r].email = ""
    /\ reqs[r].resp = <<Response(400, FALSE, "Email is required")>>
    /\ Ledger = <<Order0>>
\* the 1-based position of the first order of the ledger with this id, 0 if none
FirstWithId(ledger, orderId) ==
  IF \E i \in 1..Len(ledger) : ledger[i].id = orderId
    THEN CHOOSE i \in 1..Len(ledger) :
           ledger[i].id = orderId /\ \A j \in 1..(i - 1) : ledger[j].id # orderId
    ELSE 0

\* the readFile callback of admin cancel r runs in this step with the file's text
AdminReads(r) ==
  /\ reqs[r].kind = "admin"
  /\ reqs[r].io = "read"
  /\ reqs'[r].io \in {"done", "write"}

AlreadyCancelled == Response(400, FALSE, "Order is already cancelled")

\* C14: an admin cancel that reads the ledger answers 404 for an unknown
\* orderId and 400 for an order that is Cancelled, writing nothing; for an
\* Active order it goes on to write whatever the order's email is, the write
\* leaves that order Cancelled, and the notice, in the administrator's wording,
\* goes to the email stored on the order.  (The order an orderId names is the
\* first one of the ledger with that id.)
C14_AdminCancelsAnyOrder ==
  /\ [][\A r \in Req :
          LET i == FirstWithId(Ledger, reqs[r].orderId)
          IN  /\ (AdminReads(r) /\ i = 0) =>
                   reqs'[r].resp = <<NotFound>> /\ reqs'[r].io = "done" /\ file' = file
              /\ (AdminReads(r) /\ i > 0 /\ Ledger[i].status = "Cancelled") =>
                   reqs'[r].resp = <<AlreadyCancelled>> /\ reqs'[r].io = "done" /\ file' = file
              /\ (AdminReads(r) /\ i > 0 /\ Ledger[i].status = "Active") =>
                   /\ reqs'[r].io = "write"
                   /\ reqs'[r].resp = <<>>
                   /\ reqs'[r].email = Ledger[i].email
              /\ (reqs[r].kind = "admin" /\ CancelWrote(r)) =>
                   LET k == FirstWithId(Ledger', reqs[r].orderId)
                   IN  /\ k > 0
                       /\ Ledger'[k].status = "Cancelled"
                       /\ reqs'[r].mail = "pending"
                       /\ reqs'[r].msg = [to |-> Ledger'[k].email,
                                          subject |-> "Order Cancelled by Admin",
                                          id |-> reqs[r].orderId]]_vars
  /\ [](\A r \in Req :
          (reqs[r].kind = "admin" /\ reqs[r].resp \in {<<NotFound>>, <<AlreadyCancelled>>}) =>
            reqs[r].io = "done" /\ reqs[r].mail = "none" /\ reqs[r].msg = NoMail)

\* C14 witness: an admin cancel has cancelled an order a purchase of b@x made
\* and its notice is addressed to b@x; another admin cancel was answered 404.
C14_Witness ==
  \E r, q \in Req :
    /\ reqs[r].kind = "admin" /\ reqs[q].kind = "admin"
    /\ reqs[r].msg = [to |-> "b@x", subject |-> "Order Cancelled by Admin",
                      id |-> reqs[r].orderId]
    /\ \E i \in 1..Len(Ledger) :
         /\ Ledger[i].id = reqs[r].orderId
         /\ Ledger[i].email = "b@x"
         /\ Ledger[i].status = "Cancelled"
    /\ reqs[q].resp = <<NotFound>>

\* the writeFile callback of cancel r runs in this step with an error
CancelWriteFails(r) ==
  /\ reqs[r].kind \in {"cancel", "admin"}
  /\ reqs[r].io = "write"
  /\ reqs'[r].io = "failed"

\* C18: in both cancel flows the mail is handed to the transporter in the step
\* of the successful write and in no other step, and what was handed over is
\* never handed over again; a failed write answers 500 'Failed to update
\* order', sends no mail and leaves the ledger as it was.
C18_MailOnlyAfterWrite ==
  /\ [](\A r \in Cancels :
          /\ reqs[r].mail # "none" => reqs[r].io = "done" /\ reqs[r].msg # NoMail
          /\ reqs[r].io \in {"read", "write", "failed"} =>
               reqs[r].mail = "none" /\ reqs[r].msg = NoMail)
  /\ [][\A r \in Req :
          /\ (reqs[r].kind \in {"cancel", "admin"} /\ reqs[r].mail = "none"
              /\ reqs'[r].mail # "none") => CancelWrote(r) /\ reqs'[r].mail = "pending"
          /\ (reqs[r].kind \in {"cancel", "admin"} /\ reqs[r].mail # "none") =>
               reqs'[r].mail # "none" /\ reqs'[r].msg = reqs[r].msg
          /\ (reqs[r].kind \in {"cancel", "admin"} /\ reqs[r].mail \in {"sent", "failed"}) =>
               reqs'[r].mail = reqs[r].mail
          /\ CancelWriteFails(r) =>
               /\ reqs'[r].resp = <<Response(500, FALSE, "Failed to update order")>>
               /\ reqs'[r].mail = "none"
               /\ file' = file]_vars

\* C18 witness: an owner cancel whose write failed was answered 500, sent no
\* mail, and its order is Active in the ledger.
C18_Witness ==
  \E r \in Req :
    /\ reqs[r].kind = "cancel"
    /\ reqs[r].io = "failed"
    /\ reqs[r].resp = <<Response(500, FALSE, "Failed to update order")>>
    /\ reqs[r].mail = "none"
    /\ \E i \in 1..Len(Ledger) :
         Ledger[i].id = reqs[r].orderId /\ Ledger[i].status = "Active"

\* C19: the successful write of a cancel changes the status of one order of
\* the ledger from Active to Cancelled and nothing else: same length, same
\* positions, every other order and every other field as before the write.
C19_CancelChangesOneStatus ==
  [][\A r \in Req :
       CancelWrote(r) =>
         \E i \in 1..Len(Ledger) :
           /\ Ledger[i].id = reqs[r].orderId
           /\ Ledger[i].status = "Active"
           /\ Ledger' = [Ledger EXCEPT ![i] = [@ EXCEPT !.status = "Cancelled"]]]_vars

\* the write of mutation r succeeds in this step
Writes(r) ==
  /\ reqs[r].io = "write"
  /\ reqs'[r].io = "done"

\* mutation q has loaded the ledger and saved its copy
Wrote(q) == reqs[q].io = "done" /\ reqs[q].read # "none"

\* mutations q and r loaded the same ledger
SameBase(q, r) ==
  /\ q # r
  /\ reqs[q].read = "ok"
  /\ reqs[r].read = "ok"
  /\ reqs[q].base = reqs[r].base

\* ledger is what mutation r loaded with the change of r and no other change
OnlyChangeOf(r, ledger) ==
  IF reqs[r].kind = "purchase"
    THEN ledger = Append(reqs[r].base, reqs[r].newOrder)
    ELSE \E i \in 1..Len(reqs[r].base) :
           /\ reqs[r].base[i].id = reqs[r].orderId
           /\ reqs[r].base[i].status = "Active"
           /\ ledger = [reqs[r].base EXCEPT ![i] = [@ EXCEPT !.status = "Cancelled"]]

\* C16: when two mutations (purchases or cancels) loaded the same ledger and
\* one has saved its copy, the successful write of the other leaves the ledger
\* with the last writer's change only: whatever the earlier writer changed is
\* gone.
C16_LastWriterWins ==
  [][\A q, r \in Req :
       (SameBase(q, r) /\ Wrote(q) /\ Writes(r)) => OnlyChangeOf(r, Ledger')]_vars

\* an owner cancel and a purchase loaded the same ledger, the cancel was saved
\* and answered with success, the purchase was saved last, and the ledger has
\* the new order while the cancelled order is Active in it
C16_Witness ==
  \E q, r \in Req :
    /\ SameBase(q, r) /\ Wrote(q) /\ Wrote(r)
    /\ reqs[q].kind = "cancel" /\ Succeeded(q)
    /\ reqs[r].kind = "purchase"
    /\ Ledger = Append(reqs[r].base, reqs[r].newOrder)
    /\ \E i \in 1..Len(Ledger) :
         Ledger[i].id = reqs[q].orderId /\ Ledger[i].status = "Active"

\* the response a purchase has got so far, from its email, the credentials and
\* the state of its confirmation mail alone
PurchaseAnswer(r) ==
  IF ~Truthy(reqs[r].email) THEN <<Response(400, FALSE, "Email is required")>>
  ELSE IF ~creds THEN <<Response(500, FALSE, PurchaseError(MissingCreds))>>
  ELSE IF reqs[r].mail = "pending" THEN <<>>
  ELSE IF reqs[r].mail = "sent"
    THEN <<Response(200, TRUE, "Confirmation sent to your email!")>>
    ELSE <<Response(500, FALSE, PurchaseError(SendFailed))>>

\* C17: whatever the state of its ledger I/O (outstanding, read failed, write
\* failed, saved), a purchase has exactly the response that its email, the
\* credentials and its confirmation mail give, and no read or write step of a
\* purchase changes the response or the state of the mail.
C17_ResponseIgnoresLedgerIO ==
  /\ [](\A r \in Purchases : reqs[r].resp = PurchaseAnswer(r))
  /\ [][\A r \in Purchases :
          reqs'[r].io # reqs[r].io =>
            reqs'[r].resp = reqs[r].resp /\ reqs'[r].mail = reqs[r].mail]_vars

\* one purchase was answered 200 although neither its read nor its write of
\* the ledger succeeded, and another was answered 200 while its read of the
\* ledger is still outstanding
C17_Witness ==
  \E q, r \in Purchases :
    /\ reqs[r].read \in {"err", "bad"}
    /\ reqs[r].io = "failed"
    /\ reqs[r].resp = <<Response(200, TRUE, "Confirmation sent to your email!")>>
    /\ reqs[q].io = "read"
    /\ reqs[q].resp = <<Response(200, TRUE, "Confirmation sent to your email!")>>

\* C20: with one request at a time, the successful write of a purchase leaves
\* the ledger with every order it had before the write, in place, followed by
\* the new order.
C20_SequentialPurchaseKeepsOrders ==
  [][\A r \in Purchases :
       Writes(r) => Ledger' = Append(Ledger, reqs[r].newOrder)]_vars

\* request r was answered with a listing
Listed(r) == reqs[r].resp # <<>> /\ reqs[r].resp[1].code = 200

\* body is the orders of ledger at the positions in picked, the last position
\* first
NewestFirst(body, ledger, picked) ==
  /\ Len(body) = Cardinality(picked)
  /\ \A k \in 1..Len(body) :
       \E i \in picked :
         /\ body[k] = ledger[i]
         /\ Cardinality({j \in picked : j > i}) = k - 1

\* C11: a listing that was answered lists, for the owner route, the orders at
\* exactly the positions of the ledger whose email is the requested one and,
\* for the admin route, the orders at all positions, the order at the last
\* position first; no step of a listing changes the file.
C11_ListingsNewestFirst ==
  /\ [](\A r \in Req :
          /\ (reqs[r].kind = "orders" /\ Listed(r)) =>
               NewestFirst(reqs[r].resp[1].body, Ledger,
                           {i \in 1..Len(Ledger) : Ledger[i].email = reqs[r].email})
          /\ (reqs[r].kind = "adminOrders" /\ Listed(r)) =>
               NewestFirst(reqs[r].resp[1].body, Ledger, 1..Len(Ledger)))
  /\ [][file' = file]_vars

\* the ledger has orders of both owners, the first and the last of the same
\* owner, and both routes have listed it
C11_Witness ==
  /\ Len(Ledger) = MaxLedger
  /\ Ledger[1].email = Ledger[MaxLedger].email
  /\ Ledger[2].email # Ledger[1].email
  /\ \E q, r \in Req :
       /\ reqs[q].kind = "orders" /\ Listed(q)
       /\ reqs[q].email = Ledger[1].email
       /\ Len(reqs[q].resp[1].body) = 2
       /\ reqs[r].kind = "adminOrders" /\ Listed(r)
       /\ Len(reqs[r].resp[1].body) = MaxLedger

\* the categories of the persisted collection (none while the file is absent)
Categories == IF categoriesFile.kind = "json" THEN categoriesFile.orders ELSE <<>>

\* C12: no two categories of the persisted collection have the same name.
C12_UniqueCategoryNames ==
  \A i, j \in 1..Len(Categories) :
    i # j => Categories[i].name # Categories[j].name

\* the write of DELETE /categories/bulk request c succeeds in this step
BulkDeleteWrites(c) ==
  /\ calls[c].kind = "bulkDeleteCategories"
  /\ calls[c].io = "write"
  /\ calls'[c].resp = <<Response(200, TRUE, "Categories deleted successfully")>>

\* C15: the successful write of DELETE /categories/bulk leaves the persisted
\* collection with the categories it had whose name is not in the list, in
\* the order they had, and with nothing else.
C15_BulkDeleteRemovesNamed ==
  [][\A c \in Call :
       BulkDeleteWrites(c) =>
         Categories' =
           SelectSeq(Categories,
                     LAMBDA cat : \A k \in 1..Len(calls[c].names) :
                                    calls[c].names[k] # cat.name)]_vars

\* the products of the persisted collection (none while the file is absent)
Products == IF productsFile.kind = "json" THEN productsFile.orders ELSE <<>>

\* param is the decimal numeral of a position of a collection of len products
Denotes(param, len) == \E i \in 0..(len - 1) : param = <<ToString(i)>>

\* the readFile callback of indexed product request c gets the text and
\* decodes it in this step
ProductLoaded(c) ==
  /\ calls[c].kind \in {"deleteProduct", "putProduct"}
  /\ calls[c].io = "read"
  /\ calls'[c].io # "read"
  /\ \/ calls'[c].resp = <<>>
     \/ calls'[c].resp[1].code # 500

\* C13: an indexed product request whose index parameter is not the numeral
\* of a position of the loaded collection is answered 400 when it has loaded
\* the collection and writes nothing; the successful write of a DELETE whose
\* parameter is the numeral of position i leaves the collection without
\* position i and with the other products in their order.
C13_InvalidIndexRejected ==
  [][\A c \in Call :
       /\ (ProductLoaded(c) /\ ~Denotes(calls[c].param, Len(Products))) =>
            /\ calls'[c].io = "done"
            /\ calls'[c].resp # <<>>
            /\ calls'[c].resp[1].code = 400
       /\ (/\ calls[c].kind = "deleteProduct"
           /\ calls[c].io = "write"
           /\ productsFile' # productsFile) =>
            \E i \in 1..Len(Products) :
              /\ calls[c].param = <<ToString(i - 1)>>
              /\ Products' = [k \in 1..(Len(Products) - 1) |->
                                IF k < i THEN Products[k] ELSE Products[k + 1]]]_vars

\* the cancel requests (owner or admin) for orderId that got to the ledger
CancelsOf(orderId) ==
  {r \in Cancels : reqs[r].io # "none" /\ reqs[r].orderId = orderId}

\* C21: as long as no purchase has been issued, for every order id at most
\* one cancel request has been answered with success and at most one
\* cancellation mail has been sent.
C21_OneCancelPerOrder ==
  Purchases = {} =>
    \A orderId \in OrderIdInputs \ {Undefined} :
      /\ Cardinality({r \in CancelsOf(orderId) : Succeeded(r)}) <= 1
      /\ Cardinality({r \in CancelsOf(orderId) : reqs[r].mail = "sent"}) <= 1

\* the creation time an order id stands for: the number whose decimal digits
\* the id is
CreatedAt(id) == CHOOSE t \in 0..MaxClock : ToString(t) = id

\* C22: of any two orders of the persisted ledger, the one at the later
\* position was not created before the one at the earlier position.
C22_LedgerInCreationOrder ==
  \A i, j \in 1..Len(Ledger) :
    i < j => CreatedAt(Ledger[i].id) <= CreatedAt(Ledger[j].id)

\* request r has arrived (purchase, owner cancel or admin cancel)
Arrived(r) == reqs[r].kind \in {"purchase", "cancel", "admin"}

\* every request that has arrived has its response
AllAnswered == \A r \in Req : Arrived(r) => Len(reqs[r].resp) = 1

\* C23: no request is ever answered twice, an answer once given stays as it
\* is, and on an event loop that keeps delivering completions every request
\* that arrived is eventually answered: again and again all the requests that
\* have arrived so far have their one response.
C23_ExactlyOneResponse ==
  /\ [](\A r \in Req : Len(reqs[r].resp) <= 1)
  /\ [][\A r \in Req : reqs[r].resp # <<>> => reqs'[r].resp = reqs[r].resp]_vars
  /\ []<>AllAnswered

\* a purchase answered after its mail failed, an owner cancel answered after
\* its write failed and an admin cancel answered after its mail failed, each
\* with one response
C23_Witness ==
  \E p, c, a \in Req :
    /\ reqs[p].kind = "purchase" /\ reqs[p].mail = "failed" /\ Len(reqs[p].resp) = 1
    /\ reqs[c].kind = "cancel" /\ reqs[c].io = "failed" /\ reqs[c].read = "ok"
    /\ Len(reqs[c].resp) = 1
    /\ reqs[a].kind = "admin" /\ reqs[a].mail = "failed" /\ Len(reqs[a].resp) = 1
====
